---- MODULE Spec2Model ----
(***************************************************************************)
(* Model of the lumina browser controllers.                                *)
(*                                                                         *)
(*   AuthManager   static/js/auth.js      (compat SDK build, impl "compat")*)
(*   AuthManager   unnamed/part_000       (modular SDK build, "modular")   *)
(*   ModernChat    static/js/main.js                                       *)
(*                                                                         *)
(* Strings that the code inspects (trim, length, emptiness) are sequences  *)
(* of one-character strings; texts that are only displayed are strings.    *)
(* Every async handler is cut at its awaits: one action per resumption.    *)
(***************************************************************************)
EXTENDS Integers, Sequences, FiniteSets, TLC

VARIABLES
    \* ---- identity provider and backend (collaborators)
    impl,           \* which AuthManager build the page loads
    idpUser,        \* the provider's current session user, NoUser when signed out
    profileName,    \* displayName of the provider account (NoName when never set)
    notifQ,         \* session-change notifications not yet delivered to the listener
    \* ---- AuthManager fields and the DOM regions it writes
    initialized,    \* this.initialized / the listener and the handlers are bound
    currentUser,    \* this.currentUser
    modalDisplay,   \* #auth-modal style.display
    mainDisplay,    \* #main-app style.display
    userName,       \* #user-name textContent
    errorShown,     \* #auth-error style.display = 'block'
    errorText,      \* #auth-error textContent
    loadingShown,   \* #auth-loading style.display = 'block'
    loginForm,      \* values of #login-email, #login-password
    registerForm,   \* values of #register-name, #register-email, #register-password
    tasks,          \* the suspended async handlers (handleLogin/Register/Logout)
    reloadTimer,    \* a setTimeout(() => location.reload(), 500) is armed
    authListeners,  \* callbacks registered with onAuthStateChanged
    submitBindings, \* 'submit' listeners on #login-form and on #register-form
    loginFormDisplay,    \* #login-form style.display
    registerFormDisplay, \* #register-form style.display
    \* ---- ModernChat fields and the DOM regions it writes
    chatInput,      \* #chat-input value
    transcript,     \* children of #chat-messages, in order
    isTyping,       \* this.isTyping
    chatConvId,     \* this.currentConversationId
    chatTitle,      \* #chat-title textContent
    sendDisabled,   \* #send-btn disabled
    sendReqs,       \* POST /chat/send requests in flight
    histFetches,    \* GET /chat/history requests in flight (historyManager.loadConversations)
    conversations,  \* historyManager.conversations, the cached list
    historyView,    \* children of #chat-history, in order
    hmConvId,       \* historyManager.currentConversationId
    convFetches,    \* GET /chat/conversation/{id} requests in flight
    chatEvent,      \* the ModernChat step that ran last (observation only)
    histStale,      \* how many of the oldest /chat/history requests in flight
                    \* were issued before the one whose answer is cached
    convStale       \* the same for the /chat/conversation/{id} requests

authVars == <<impl, idpUser, profileName, notifQ, initialized, currentUser,
              modalDisplay, mainDisplay, userName, errorShown, errorText,
              loadingShown, loginForm, registerForm, tasks, reloadTimer,
              authListeners, submitBindings, loginFormDisplay,
              registerFormDisplay>>
chatVars == <<chatInput, transcript, isTyping, chatConvId, chatTitle,
              sendDisabled, sendReqs, histFetches, conversations, historyView,
              hmConvId, convFetches, chatEvent, histStale, convStale>>
vars == <<authVars, chatVars>>

-----------------------------------------------------------------------------
(* Bounds *)
MaxTasks == 2       \* async auth handlers suspended at once
MaxNotif == 2       \* undelivered session-change notifications
MaxPwLen == 7       \* longest password typed
MaxInputLen == 2    \* longest chat input typed
MaxMsgs == 4        \* transcript nodes
MaxHistFetches == 2 \* history fetches in flight
MaxFormCalls == 1   \* calls left in flight while the form checks are explored
MaxBindings == 2    \* times initializeAuth runs on one page
MaxLoaded == 2      \* messages of a stored conversation
MaxConvFetches == 1 \* conversation fetches in flight
MaxLongLen == 60    \* longest message typed while titles are explored
MaxSkew == 1        \* milliseconds explored on either side of a time boundary
MaxPending == 2     \* sends in flight once hideTypingIndicator is called by itself

(* Program constants *)
MinPasswordLength == 6
TitleLimit == 50

-----------------------------------------------------------------------------
(* Strings *)
RECURSIVE Pw(_)
Pw(n) == IF n = 0 THEN <<>> ELSE Append(Pw(n - 1), "p")

\* JavaScript falsiness of a string: !s
Blank(s) == s = <<>>

RECURSIVE TrimLeft(_)
TrimLeft(s) == IF s # <<>> /\ Head(s) = " " THEN TrimLeft(Tail(s)) ELSE s

RECURSIVE TrimRight(_)
TrimRight(s) ==
    IF s # <<>> /\ s[Len(s)] = " " THEN TrimRight(SubSeq(s, 1, Len(s) - 1)) ELSE s

\* String.prototype.trim
Trim(s) == TrimRight(TrimLeft(s))

NoUser == <<"null">>
NoName == <<>>
TheEmail == <<"a">>
TheName == <<"n">>
EmailInputs == {<<>>, <<" ">>, TheEmail}
NameInputs == {<<>>, <<" ">>, TheName}
PasswordInputs == {Pw(n) : n \in 0..MaxPwLen}
GoodPassword == Pw(MinPasswordLength)

-----------------------------------------------------------------------------
(* Provider and backend answers *)
NoMessage == ""
NoCode == "undefined"
MappedCodes == {"auth/user-not-found", "auth/wrong-password",
                "auth/email-already-in-use", "auth/weak-password",
                "auth/invalid-email"}

\* what the provider rejects a call with: {code, message}
ProviderErrors == {[code |-> "auth/wrong-password", message |-> "raw"],
                   [code |-> "auth/other", message |-> NoMessage]}
\* what fetch() or response.json() rejects with: a TypeError/SyntaxError, no code
TransportError == [code |-> NoCode, message |-> "Failed to fetch"]

\* the body of a /auth/verify response: {success, error?}
VerifyResults == {[success |-> TRUE, error |-> NoMessage],
                  [success |-> FALSE, error |-> "X"],
                  [success |-> FALSE, error |-> NoMessage]}

messages(code) ==
    CASE code = "auth/user-not-found" -> "No account found with this email"
      [] code = "auth/wrong-password" -> "Incorrect password"
      [] code = "auth/email-already-in-use" -> "Account already exists with this email"
      [] code = "auth/weak-password" -> "Password must be at least 6 characters"
      [] code = "auth/invalid-email" -> "Please enter a valid email address"

getErrorMessage(error) ==
    IF error.code \in MappedCodes THEN messages(error.code)
    ELSE IF error.message # NoMessage THEN error.message
    ELSE "An error occurred"

\* the text the catch block of handleLogin/handleRegister shows
CatchText(error) == IF impl = "compat" THEN getErrorMessage(error) ELSE error.message

\* the provider accepts only a well-formed address of the one account modelled
WellFormed(email) == email = TheEmail

-----------------------------------------------------------------------------
(* Suspended handlers *)
Slots == 1..MaxTasks
IdleTask == [kind |-> "idle", pc |-> "idle", email |-> <<>>, name |-> <<>>]
NewTask(k, p, e, n) == [kind |-> k, pc |-> p, email |-> e, name |-> n]
HasFree == \E t \in Slots : tasks[t].kind = "idle"
FreeSlot == CHOOSE t \in Slots : /\ tasks[t].kind = "idle"
                                 /\ \A u \in Slots : tasks[u].kind = "idle" => t <= u
Spawn(task) == [tasks EXCEPT ![FreeSlot] = task]
\* one run of the handler per bound listener, each suspended at its first await
RECURSIVE SpawnInto(_, _, _)
SpawnInto(ts, task, k) ==
    IF k = 0 THEN ts
    ELSE LET free == CHOOSE t \in Slots : /\ ts[t].kind = "idle"
                                          /\ \A u \in Slots : ts[u].kind = "idle" => t <= u
         IN SpawnInto([ts EXCEPT ![free] = task], task, k - 1)
FreeCount == Cardinality({t \in Slots : tasks[t].kind = "idle"})
Finish(t) == [tasks EXCEPT ![t] = IdleTask]
At(t, kinds, pc) == tasks[t].kind \in kinds /\ tasks[t].pc = pc

EmptyLogin == [email |-> <<>>, password |-> <<>>]
EmptyRegister == [name |-> <<>>, email |-> <<>>, password |-> <<>>]

\* user.displayName || user.email
DisplayOf(user) == IF Blank(profileName) THEN user ELSE profileName
LabelOf(user) == IF impl = "compat" THEN DisplayOf(user)
                 ELSE <<"Welcome, ">> \o DisplayOf(user) \o <<"!">>
NoLabel == <<>>

\* a change of the provider session queues one notification for the listener
Notified(q, old, new) == IF initialized /\ old # new THEN Append(q, new) ELSE q

-----------------------------------------------------------------------------
(* Page load *)
AuthPage(i, user, name) ==
    /\ impl = i
    /\ idpUser = user
    /\ profileName = name
    /\ initialized = (i = "modular")
    /\ notifQ = IF i = "modular" THEN <<user>> ELSE <<>>
    /\ currentUser = NoUser
    /\ modalDisplay = "unset"
    /\ mainDisplay = "unset"
    /\ userName = NoLabel
    /\ errorShown = FALSE
    /\ errorText = ""
    /\ loadingShown = FALSE
    /\ loginForm = EmptyLogin
    /\ registerForm = EmptyRegister
    /\ tasks = [t \in Slots |-> IdleTask]
    /\ reloadTimer = FALSE
    /\ authListeners = (IF i = "modular" THEN 1 ELSE 0)
    /\ submitBindings = (IF i = "modular" THEN 1 ELSE 0)
    /\ loginFormDisplay = "unset"
    /\ registerFormDisplay = "unset"

\* new ModernChat() and new HistoryManager(), whose constructor calls loadConversations()
ChatPage ==
    /\ chatInput = <<>>
    /\ transcript = <<>>
    /\ isTyping = FALSE
    /\ chatConvId = "null"
    /\ chatTitle = <<"(template)">>
    /\ sendDisabled = FALSE
    /\ sendReqs = <<>>
    /\ histFetches = 1
    /\ conversations = <<>>
    /\ historyView = <<>>
    /\ hmConvId = "null"
    /\ convFetches = <<>>
    /\ chatEvent = [op |-> "load", text |-> <<>>]
    /\ histStale = 0
    /\ convStale = 0

Init ==
    /\ \E i \in {"compat", "modular"}, user \in {NoUser, TheEmail} :
          AuthPage(i, user, NoName)
    /\ ChatPage

-----------------------------------------------------------------------------
(* AuthManager: DOM helpers *)
formVars == <<loginForm, registerForm>>
uiVars == <<currentUser, modalDisplay, mainDisplay, userName, errorShown, formVars>>
bindVars == <<authListeners, submitBindings>>
tabVars == <<loginFormDisplay, registerFormDisplay>>
idpVars == <<impl, idpUser, profileName, notifQ, initialized, bindVars, tabVars>>

\* hideAuthModal of auth.js: display none, clearError, clearForms
hideAuthModal ==
    /\ modalDisplay' = "none"
    /\ errorShown' = FALSE
    /\ loginForm' = EmptyLogin
    /\ registerForm' = EmptyRegister

\* handleAuthSuccess of auth.js
CompatAuthSuccess(user) ==
    /\ hideAuthModal
    /\ userName' = LabelOf(user)
    /\ UNCHANGED mainDisplay

\* handleAuthSuccess of part_000
ModularAuthSuccess(user) ==
    /\ currentUser' = user
    /\ modalDisplay' = "none"
    /\ mainDisplay' = "block"
    /\ userName' = LabelOf(user)
    /\ UNCHANGED <<errorShown, formVars>>

\* showAuthModal of part_000
ModularShowAuthModal ==
    /\ modalDisplay' = "block"
    /\ mainDisplay' = "none"
    /\ UNCHANGED <<currentUser, userName, errorShown, formVars>>

\* showError(message)
showError(message) == errorShown' = TRUE /\ errorText' = message
\* clearError()
clearError == errorShown' = FALSE /\ UNCHANGED errorText

\* the forms and the close controls live inside #auth-modal
ModalReachable == modalDisplay # "none"

-----------------------------------------------------------------------------
(* AuthManager: initialisation and the session-change listener *)

\* initializeAuth(): one more onAuthStateChanged callback, which the provider
\* calls once with the current user, and bindEvents(): one more submit listener
\* on each form
initializeAuth ==
    /\ initialized' = TRUE
    /\ authListeners' = authListeners + 1
    /\ submitBindings' = submitBindings + 1
    /\ notifQ' = Append(notifQ, idpUser)

\* 'firebaseReady' -> initializeAuth (auth.js): registers the listener, binds the handlers
FirebaseReady ==
    /\ impl = "compat"
    /\ ~initialized
    /\ initializeAuth
    /\ UNCHANGED <<tabVars, impl, idpUser, profileName, uiVars, errorText, loadingShown,
                   tasks, reloadTimer>>
    /\ UNCHANGED chatVars

\* a further 'firebaseReady' event: the listener the constructor installed is
\* still in place and runs initializeAuth again
FirebaseReadyAgain ==
    /\ impl = "compat"
    /\ initialized
    /\ authListeners < MaxBindings
    /\ Len(notifQ) < MaxNotif
    /\ initializeAuth
    /\ UNCHANGED <<tabVars, impl, idpUser, profileName, uiVars, errorText, loadingShown,
                   tasks, reloadTimer>>
    /\ UNCHANGED chatVars

\* the onAuthStateChanged callback runs with a present user
NotifyUser ==
    /\ initialized
    /\ notifQ # <<>> /\ Head(notifQ) # NoUser
    /\ notifQ' = Tail(notifQ)
    /\ IF impl = "compat"
       THEN currentUser' = Head(notifQ) /\ CompatAuthSuccess(Head(notifQ))
       ELSE ModularAuthSuccess(Head(notifQ))
    /\ UNCHANGED <<bindVars, tabVars, impl, idpUser, profileName, initialized, errorText, loadingShown,
                   tasks, reloadTimer>>
    /\ UNCHANGED chatVars

\* the onAuthStateChanged callback runs with null
NotifyNone ==
    /\ initialized
    /\ notifQ # <<>> /\ Head(notifQ) = NoUser
    /\ notifQ' = Tail(notifQ)
    /\ IF impl = "compat"
       THEN /\ currentUser' = NoUser
            /\ UNCHANGED <<modalDisplay, mainDisplay, userName, errorShown, formVars>>
       ELSE ModularShowAuthModal
    /\ UNCHANGED <<bindVars, tabVars, impl, idpUser, profileName, initialized, errorText, loadingShown,
                   tasks, reloadTimer>>
    /\ UNCHANGED chatVars

\* the provider ends the session by itself (expiry, sign-out in another tab)
ProviderSessionLost ==
    /\ idpUser # NoUser
    /\ Len(notifQ) < MaxNotif
    /\ idpUser' = NoUser
    /\ notifQ' = Notified(notifQ, idpUser, NoUser)
    /\ UNCHANGED <<bindVars, tabVars, impl, profileName, initialized, uiVars, errorText, loadingShown,
                   tasks, reloadTimer>>
    /\ UNCHANGED chatVars

\* location.reload(): the page and its controller start again
Reload ==
    /\ initialized' = (impl = "modular")
    /\ notifQ' = IF impl = "modular" THEN <<idpUser>> ELSE <<>>
    /\ currentUser' = NoUser
    /\ modalDisplay' = "unset"
    /\ mainDisplay' = "unset"
    /\ userName' = NoLabel
    /\ errorShown' = FALSE
    /\ errorText' = ""
    /\ loadingShown' = FALSE
    /\ loginForm' = EmptyLogin
    /\ registerForm' = EmptyRegister
    /\ tasks' = [t \in Slots |-> IdleTask]
    /\ reloadTimer' = FALSE
    /\ authListeners' = (IF impl = "modular" THEN 1 ELSE 0)
    /\ submitBindings' = (IF impl = "modular" THEN 1 ELSE 0)
    /\ loginFormDisplay' = "unset"
    /\ registerFormDisplay' = "unset"
    /\ UNCHANGED <<impl, idpUser, profileName>>
    /\ chatInput' = <<>>
    /\ transcript' = <<>>
    /\ isTyping' = FALSE
    /\ chatConvId' = "null"
    /\ chatTitle' = <<"(template)">>
    /\ sendDisabled' = FALSE
    /\ sendReqs' = <<>>
    /\ histFetches' = 1
    /\ conversations' = <<>>
    /\ historyView' = <<>>
    /\ hmConvId' = "null"
    /\ convFetches' = <<>>
    /\ chatEvent' = [op |-> "load", text |-> <<>>]
    /\ histStale' = 0
    /\ convStale' = 0

\* the timer armed by a successful verification fires
ReloadTimerFires ==
    /\ reloadTimer
    /\ Reload

-----------------------------------------------------------------------------
(* AuthManager: modal controls (auth.js only) *)

\* login-btn, register-btn, get-started-btn, signup-btn
ShowAuthModal ==
    /\ impl = "compat"
    /\ initialized
    /\ modalDisplay' = "flex"
    /\ UNCHANGED <<idpVars, currentUser, mainDisplay, userName, errorShown,
                   errorText, loadingShown, formVars, tasks, reloadTimer>>
    /\ UNCHANGED chatVars

\* close button, overlay click, or Escape while the modal is shown as flex
CloseAuthModal ==
    /\ impl = "compat"
    /\ initialized
    /\ ModalReachable
    /\ hideAuthModal
    /\ UNCHANGED <<idpVars, currentUser, mainDisplay, userName, errorText,
                   loadingShown, tasks, reloadTimer>>
    /\ UNCHANGED chatVars

\* the user types into the login form, leaving it holding `form`
FillLogin(form) ==
    /\ ModalReachable
    /\ loginForm' = form
    /\ UNCHANGED <<idpVars, currentUser, modalDisplay, mainDisplay, userName,
                   errorShown, errorText, loadingShown, registerForm, tasks,
                   reloadTimer>>
    /\ UNCHANGED chatVars

\* the user types into the registration form, leaving it holding `form`
FillRegister(form) ==
    /\ ModalReachable
    /\ registerForm' = form
    /\ UNCHANGED <<idpVars, currentUser, modalDisplay, mainDisplay, userName,
                   errorShown, errorText, loadingShown, loginForm, tasks,
                   reloadTimer>>
    /\ UNCHANGED chatVars

\* click on a .tab-btn: switchTab(tab). auth.js picks the tab from the text
\* of the button ('login' or anything else), part_000 from its data-tab; the
\* two buttons are those of the login and of the registration tab. auth.js
\* starts with clearError(), part_000 has no such call.
SwitchTab(tab) ==
    /\ initialized
    /\ ModalReachable
    /\ IF impl = "compat" THEN clearError ELSE UNCHANGED <<errorShown, errorText>>
    /\ loginFormDisplay' = (IF tab = "login" THEN "block" ELSE "none")
    /\ registerFormDisplay' = (IF tab = "login" THEN "none" ELSE "block")
    /\ UNCHANGED <<bindVars, impl, idpUser, profileName, notifQ, initialized,
                   currentUser, modalDisplay, mainDisplay, userName,
                   loadingShown, formVars, tasks, reloadTimer>>
    /\ UNCHANGED chatVars

-----------------------------------------------------------------------------
(* AuthManager.handleLogin *)

\* the local checks of handleLogin, up to the first await; TRUE when it goes on
LoginAccepts(form) ==
    IF impl = "compat"
    THEN ~Blank(Trim(form.email)) /\ ~Blank(form.password)
    ELSE TRUE

\* the email handed to signInWithEmailAndPassword
LoginEmail(form) == IF impl = "compat" THEN Trim(form.email) ELSE form.email

\* submit of #login-form
SubmitLogin ==
    /\ initialized
    /\ ModalReachable
    /\ IF ~LoginAccepts(loginForm)
       THEN /\ showError("Please fill in all fields")
            /\ UNCHANGED <<loadingShown, tasks>>
       ELSE /\ FreeCount >= submitBindings
            /\ loadingShown' = TRUE
            /\ clearError
            /\ tasks' = SpawnInto(tasks, NewTask("login", "signIn", LoginEmail(loginForm), <<>>),
                                  submitBindings)
    /\ UNCHANGED <<idpVars, currentUser, modalDisplay, mainDisplay, userName,
                   formVars, reloadTimer>>
    /\ UNCHANGED chatVars

CaughtLoading(t, error) ==
    /\ showError(CatchText(error))
    /\ loadingShown' = TRUE
    /\ tasks' = Finish(t)

\* catch (error) { showError(...) } finally { showLoading(false) }
Caught(t, error) ==
    /\ showError(CatchText(error))
    /\ loadingShown' = FALSE
    /\ tasks' = Finish(t)

\* signInWithEmailAndPassword settles
SignInResolve(t) ==
    /\ At(t, {"login"}, "signIn")
    /\ \/ /\ WellFormed(tasks[t].email)
          /\ Len(notifQ) < MaxNotif
          /\ idpUser' = tasks[t].email
          /\ notifQ' = Notified(notifQ, idpUser, tasks[t].email)
          /\ tasks' = [tasks EXCEPT ![t].pc = "token"]
          /\ UNCHANGED <<errorShown, errorText, loadingShown>>
       \/ /\ \E error \in ProviderErrors : Caught(t, error)
          /\ UNCHANGED <<idpUser, notifQ>>
    /\ UNCHANGED <<bindVars, tabVars, impl, profileName, initialized, currentUser, modalDisplay,
                   mainDisplay, userName, formVars, reloadTimer>>
    /\ UNCHANGED chatVars

\* userCredential.user.getIdToken settles; on success POST /auth/verify is issued
TokenResolve(t) ==
    /\ At(t, {"login", "register"}, "token")
    /\ \/ /\ tasks' = [tasks EXCEPT ![t].pc = "verify"]
          /\ UNCHANGED <<errorShown, errorText, loadingShown>>
       \/ \E error \in ProviderErrors : Caught(t, error)
    /\ UNCHANGED <<idpVars, currentUser, modalDisplay, mainDisplay, userName,
                   formVars, reloadTimer>>
    /\ UNCHANGED chatVars

\* /auth/verify answers success:true
VerifyOk(t) ==
    /\ At(t, {"login", "register"}, "verify")
    /\ IF impl = "compat"
       THEN /\ hideAuthModal
            /\ reloadTimer' = TRUE
            /\ UNCHANGED <<currentUser, mainDisplay, userName>>
       ELSE /\ ModularAuthSuccess(tasks[t].email)
            /\ UNCHANGED reloadTimer
    /\ loadingShown' = FALSE
    /\ tasks' = Finish(t)
    /\ UNCHANGED <<idpVars, errorText>>
    /\ UNCHANGED chatVars

\* the text shown when verify answers success:false
VerifyFailedText(kind, result) ==
    IF result.error # NoMessage THEN result.error
    ELSE IF kind = "login" THEN "Login failed" ELSE "Registration failed"

\* /auth/verify answers success:false
VerifyFailed(t, result) ==
    /\ At(t, {"login", "register"}, "verify")
    /\ ~result.success
    /\ showError(VerifyFailedText(tasks[t].kind, result))
    /\ loadingShown' = FALSE
    /\ tasks' = Finish(t)
    /\ UNCHANGED <<idpVars, currentUser, modalDisplay, mainDisplay, userName,
                   formVars, reloadTimer>>
    /\ UNCHANGED chatVars

\* fetch('/auth/verify') or response.json() rejects
VerifyError(t) ==
    /\ At(t, {"login", "register"}, "verify")
    /\ Caught(t, TransportError)
    /\ UNCHANGED <<idpVars, currentUser, modalDisplay, mainDisplay, userName,
                   formVars, reloadTimer>>
    /\ UNCHANGED chatVars

-----------------------------------------------------------------------------
(* AuthManager.handleRegister *)

\* if (!name || !email || !password) of auth.js; part_000 has no such check
RegisterFieldsMissing(form) ==
    /\ impl = "compat"
    /\ Blank(Trim(form.name)) \/ Blank(Trim(form.email)) \/ Blank(form.password)

PasswordTooShortOff(password) == Len(password) <= MinPasswordLength

\* if (password.length < 6)
PasswordTooShort(password) == Len(password) < MinPasswordLength

RegisterName(form) == IF impl = "compat" THEN Trim(form.name) ELSE form.name
RegisterEmail(form) == IF impl = "compat" THEN Trim(form.email) ELSE form.email

\* submit of #register-form
SubmitRegister ==
    /\ initialized
    /\ ModalReachable
    /\ IF RegisterFieldsMissing(registerForm)
       THEN /\ showError("Please fill in all fields")
            /\ UNCHANGED <<loadingShown, tasks>>
       ELSE IF PasswordTooShort(registerForm.password)
       THEN /\ showError("Password must be at least 6 characters")
            /\ UNCHANGED <<loadingShown, tasks>>
       ELSE /\ FreeCount >= submitBindings
            /\ loadingShown' = TRUE
            /\ clearError
            /\ tasks' = SpawnInto(tasks, NewTask("register", "create", RegisterEmail(registerForm),
                                                 RegisterName(registerForm)),
                                  submitBindings)
    /\ UNCHANGED <<idpVars, currentUser, modalDisplay, mainDisplay, userName,
                   formVars, reloadTimer>>
    /\ UNCHANGED chatVars

\* createUserWithEmailAndPassword settles; auth.js goes on to updateProfile,
\* part_000 straight to getIdToken
CreateResolve(t) ==
    /\ At(t, {"register"}, "create")
    /\ \/ /\ WellFormed(tasks[t].email)
          /\ Len(notifQ) < MaxNotif
          /\ idpUser' = tasks[t].email
          /\ profileName' = NoName
          /\ notifQ' = Notified(notifQ, idpUser, tasks[t].email)
          /\ tasks' = [tasks EXCEPT ![t].pc = IF impl = "compat" THEN "profile" ELSE "token"]
          /\ UNCHANGED <<errorShown, errorText, loadingShown>>
       \/ /\ \E error \in ProviderErrors : Caught(t, error)
          /\ UNCHANGED <<idpUser, profileName, notifQ>>
    /\ UNCHANGED <<bindVars, tabVars, impl, initialized, currentUser, modalDisplay, mainDisplay,
                   userName, formVars, reloadTimer>>
    /\ UNCHANGED chatVars

\* userCredential.user.updateProfile({displayName: name}) settles (auth.js)
ProfileResolve(t) ==
    /\ At(t, {"register"}, "profile")
    /\ \/ /\ profileName' = tasks[t].name
          /\ tasks' = [tasks EXCEPT ![t].pc = "token"]
          /\ UNCHANGED <<errorShown, errorText, loadingShown>>
       \/ /\ \E error \in ProviderErrors : Caught(t, error)
          /\ UNCHANGED profileName
    /\ UNCHANGED <<bindVars, tabVars, impl, idpUser, notifQ, initialized, currentUser, modalDisplay,
                   mainDisplay, userName, formVars, reloadTimer>>
    /\ UNCHANGED chatVars

-----------------------------------------------------------------------------
(* AuthManager.handleLogout *)

\* click on #logout-btn: try { await signOut ...
ClickLogout ==
    /\ initialized
    /\ HasFree
    /\ tasks' = Spawn(NewTask("logout", "signOut", <<>>, <<>>))
    /\ UNCHANGED <<idpVars, uiVars, errorText, loadingShown, reloadTimer>>
    /\ UNCHANGED chatVars

\* signOut resolves: POST /auth/logout is issued
SignOutOk(t) ==
    /\ At(t, {"logout"}, "signOut")
    /\ Len(notifQ) < MaxNotif
    /\ idpUser' = NoUser
    /\ notifQ' = Notified(notifQ, idpUser, NoUser)
    /\ tasks' = [tasks EXCEPT ![t].pc = "logoutFetch"]
    /\ UNCHANGED <<bindVars, tabVars, impl, profileName, initialized, uiVars, errorText, loadingShown,
                   reloadTimer>>
    /\ UNCHANGED chatVars

\* signOut rejects: the catch block logs and the handler ends
SignOutFailed(t) ==
    /\ At(t, {"logout"}, "signOut")
    /\ tasks' = Finish(t)
    /\ UNCHANGED <<idpVars, uiVars, errorText, loadingShown, reloadTimer>>
    /\ UNCHANGED chatVars

\* fetch('/auth/logout') resolves: auth.js reloads the page, part_000 shows the modal
LogoutFetchOk(t) ==
    /\ At(t, {"logout"}, "logoutFetch")
    /\ IF impl = "compat"
       THEN Reload
       ELSE /\ ModularShowAuthModal
            /\ tasks' = Finish(t)
            /\ UNCHANGED <<idpVars, errorText, loadingShown, reloadTimer, chatVars>>

\* fetch('/auth/logout') rejects: the catch block logs and the handler ends
LogoutFetchFailed(t) ==
    /\ At(t, {"logout"}, "logoutFetch")
    /\ tasks' = Finish(t)
    /\ UNCHANGED <<idpVars, uiVars, errorText, loadingShown, reloadTimer>>
    /\ UNCHANGED chatVars

-----------------------------------------------------------------------------
(* Specification of the session controller *)
AuthStep ==
    \/ FirebaseReady
    \/ NotifyUser
    \/ NotifyNone
    \/ ProviderSessionLost
    \/ ReloadTimerFires
    \/ ShowAuthModal
    \/ CloseAuthModal
    \/ FillLogin([email |-> TheEmail, password |-> GoodPassword])
    \/ FillRegister([name |-> TheName, email |-> TheEmail, password |-> GoodPassword])
    \/ SubmitLogin
    \/ SubmitRegister
    \/ ClickLogout
    \/ \E t \in Slots : SignInResolve(t)
    \/ \E t \in Slots : CreateResolve(t)
    \/ \E t \in Slots : ProfileResolve(t)
    \/ \E t \in Slots : TokenResolve(t)
    \/ \E t \in Slots : VerifyOk(t)
    \/ \E t \in Slots, result \in VerifyResults : VerifyFailed(t, result)
    \/ \E t \in Slots : VerifyError(t)
    \/ \E t \in Slots : SignOutOk(t)
    \/ \E t \in Slots : SignOutFailed(t)
    \/ \E t \in Slots : LogoutFetchOk(t)
    \/ \E t \in Slots : LogoutFetchFailed(t)

NextAuth == AuthStep
SpecAuth == Init /\ [][NextAuth]_vars

-----------------------------------------------------------------------------
(* Specification of one sign-in scenario: the page loads signed out and the *)
(* user signs in through the login form.                                    *)
InitSignedOut == Init /\ idpUser = NoUser

SignInStep ==
    \/ FirebaseReady
    \/ NotifyUser
    \/ NotifyNone
    \/ ReloadTimerFires
    \/ FillLogin([email |-> TheEmail, password |-> GoodPassword])
    \/ SubmitLogin
    \/ \E t \in Slots : SignInResolve(t)
    \/ \E t \in Slots : TokenResolve(t)
    \/ \E t \in Slots : VerifyOk(t)
    \/ \E t \in Slots, result \in VerifyResults : VerifyFailed(t, result)
    \/ \E t \in Slots : VerifyError(t)

NextSignIn == SignInStep
SpecSignIn == InitSignedOut /\ [][NextSignIn]_vars

-----------------------------------------------------------------------------
(* Claims: the session state machine *)

\* the region the code has switched off / on
ModalHidden == modalDisplay = "none"
MainShown == mainDisplay = "block"
\* what a successful authentication does to the page
Advanced == ModalHidden \/ MainShown \/ userName # NoLabel
\* the unauthenticated view: the modal is not switched off, the main surface not on
UnauthView == ~ModalHidden /\ ~MainShown

\* C1: when the provider sign-in succeeded and /auth/verify answers
\* {success:false, error:X}, the application has not been advanced (modal not
\* hidden, main surface not shown, identity label not set) and the displayed
\* error is X, or the generic text when X is absent.
C1_VerifyFailureDoesNotAdvance ==
    [][\A t \in Slots, result \in VerifyResults :
          tasks[t].kind = "login" /\ VerifyFailed(t, result)
          => /\ ~Advanced'
             /\ errorShown'
             /\ errorText' = IF result.error # NoMessage THEN result.error
                             ELSE "Login failed"]_vars

\* C2: a session-change notification that reports a present identity starts a
\* verification (token, then /auth/verify) and does not by itself hide the
\* modal, show the main surface or set the identity label.
C2_NotificationVerifiesFirst ==
    [][NotifyUser
       => /\ UNCHANGED <<modalDisplay, mainDisplay, userName>>
          /\ \E t \in Slots : tasks'[t].pc \in {"token", "verify"}]_vars

\* C3: a 'no session' notification forces Unauthenticated from any phase:
\* identity null, the auth modal the visible region, the main surface not.
C3_NoSessionForcesUnauthenticated ==
    [][NotifyNone => currentUser' = NoUser /\ UnauthView']_vars

\* C4: a /auth/verify success that arrives when the provider session is gone
\* and the listener has already been told so is discarded: it hides no modal,
\* shows no main surface and schedules no reload.
C4_StaleVerifyDiscarded ==
    [][\A t \in Slots :
          VerifyOk(t) /\ idpUser = NoUser /\ notifQ = <<>>
          => UNCHANGED <<currentUser, modalDisplay, mainDisplay, userName,
                         reloadTimer>>]_vars

\* the step at which handleLogout ends
LogoutEnds(t) == SignOutFailed(t) \/ LogoutFetchOk(t) \/ LogoutFetchFailed(t)

\* C5: whenever handleLogout ends, whichever of its two calls failed, the page
\* is in the unauthenticated view or a pending 'no session' notification is
\* about to put it there.
C5_SignOutEndsUnauthenticated ==
    [][\A t \in Slots :
          LogoutEnds(t)
          => \/ UnauthView'
             \/ impl = "modular" /\ notifQ' # <<>> /\ notifQ'[Len(notifQ')] = NoUser]_vars

\* C6: each sign-out attempts both calls: a provider sign-out that fails is
\* still followed by POST /auth/logout.
C6_BothTeardownCallsAttempted ==
    [][\A t \in Slots :
          SignOutFailed(t) => tasks'[t].kind = "logout" /\ tasks'[t].pc = "logoutFetch"]_vars

-----------------------------------------------------------------------------
(* Specification of the form checks: every input the forms can hold is     *)
(* typed and submitted; the calls the submissions start stay in flight.    *)
InitForms == Init /\ idpUser = NoUser

InFlight == Cardinality({t \in Slots : tasks[t].kind # "idle"})

FormStep ==
    \/ FirebaseReady
    \/ NotifyNone
    \/ \E email \in EmailInputs : FillLogin([loginForm EXCEPT !.email = email])
    \/ \E password \in {<<>>, GoodPassword} :
          FillLogin([loginForm EXCEPT !.password = password])
    \/ \E name \in NameInputs : FillRegister([registerForm EXCEPT !.name = name])
    \/ \E email \in EmailInputs : FillRegister([registerForm EXCEPT !.email = email])
    \/ \E password \in PasswordInputs :
          FillRegister([registerForm EXCEPT !.password = password])
    \/ SubmitLogin /\ InFlight' <= MaxFormCalls
    \/ SubmitRegister /\ InFlight' <= MaxFormCalls

NextForms == FormStep
SpecForms == InitForms /\ [][NextForms]_vars

-----------------------------------------------------------------------------
(* Claims: local validation *)
ValidationTexts == {"Please fill in all fields", "Password must be at least 6 characters"}

\* a handler left one more call in flight
CallStarted(kind, pc) ==
    \E t \in Slots : /\ tasks[t].kind = "idle"
                     /\ tasks'[t].kind = kind /\ tasks'[t].pc = pc
                     /\ \A u \in Slots \ {t} : tasks'[u] = tasks[u]

\* C9: a sign-in or sign-up submitted with an empty email or password (or, for
\* sign-up, an empty name) starts no provider call and no backend call, and a
\* validation error is displayed.
C9_EmptyFieldsRejected ==
    [][/\ SubmitLogin /\ (Blank(loginForm.email) \/ Blank(loginForm.password))
          => tasks' = tasks /\ errorShown' /\ errorText' \in ValidationTexts
       /\ SubmitRegister /\ (\/ Blank(registerForm.name)
                             \/ Blank(registerForm.email)
                             \/ Blank(registerForm.password))
          => tasks' = tasks /\ errorShown' /\ errorText' \in ValidationTexts]_vars

\* C10: a registration submitted with a password shorter than 6 characters
\* starts no provider call and no backend call and shows a validation error; a
\* password of exactly 6 characters passes the local check, so that (the other
\* fields being filled where the build checks them) the provider call starts.
C10_ShortPasswordRejected ==
    [][SubmitRegister =>
         /\ Len(registerForm.password) < 6
            => tasks' = tasks /\ errorShown' /\ errorText' \in ValidationTexts
         /\ /\ Len(registerForm.password) = 6
            /\ impl = "compat" => /\ Trim(registerForm.name) # <<>>
                                  /\ Trim(registerForm.email) # <<>>
            => CallStarted("register", "create") /\ ~errorShown']_vars

\* C10 witness: a 6-character registration is in flight and a later one with a
\* shorter, non-empty password has been turned down with the length message
C10_Witness ==
    /\ \E t \in Slots : tasks[t].kind = "register" /\ tasks[t].pc = "create"
    /\ errorShown /\ errorText = "Password must be at least 6 characters"
    /\ Len(registerForm.password) \in 1..5

-----------------------------------------------------------------------------
(* ModernChat (main.js) *)
NoConv == "null"
ConvIds == {"c1", "c2"}
ChatChars == {" ", "a"}
ChatInputs == UNION {[1..n -> ChatChars] : n \in 0..MaxInputLen}

\* a child of #chat-messages: className 'message <kind>', or the typing
\* indicator, or the welcome block; content is the text handed to addMessage
Node(kind, content) == [kind |-> kind, content |-> content]
TypingNode == Node("typing", <<"Thinking...">>)
WelcomeNode == Node("welcome", <<"New Conversation Started!">>)

TitleOfOff(content) ==
    IF Len(content) >= TitleLimit
    THEN SubSeq(content, 1, TitleLimit) \o <<".", ".", ".">>
    ELSE content

\* content.length > 50 ? content.substring(0, 50) + '...' : content
TitleOf(content) ==
    IF Len(content) > TitleLimit
    THEN SubSeq(content, 1, TitleLimit) \o <<".", ".", ".">>
    ELSE content

\* addMessage(type, content): the list after the append
Appended(list, type, content) == Append(list, Node(type, content))
\* addMessage(type, content): the title after the append
TitleAfter(type, content) ==
    IF type = "user" /\ chatConvId = NoConv THEN TitleOf(content) ELSE chatTitle

IndicatedAlways(list) == Append(list, TypingNode)

\* showTypingIndicator(): if (this.isTyping) return; else the indicator is appended
Indicated(list) == IF isTyping THEN list ELSE Append(list, TypingNode)

KeepTyping(list) == list

\* document.getElementById('typing-indicator')?.remove(): the first such node goes
RECURSIVE WithoutTyping(_)
WithoutTyping(list) ==
    IF list = <<>> THEN <<>>
    ELSE IF Head(list).kind = "typing" THEN Tail(list)
    ELSE <<Head(list)>> \o WithoutTyping(Tail(list))

\* variants of the guard, each with one of its two tests left out
SendGuardNoPending(message) == Blank(message)
SendGuardNoEmpty(message) == isTyping

\* if (!message || this.isTyping) return;
SendIgnored(message) == Blank(message) \/ isTyping

\* the text sendMessage reads: this.chatInput.value.trim()
SendText == Trim(chatInput)

RequestConvNone == NoConv

\* conversation_id: this.currentConversationId
RequestConv == chatConvId

\* what formatTimeAgo returns: `${n}${unit}`, or a text that carries no number
TimeLabel(n, unit) == [n |-> n, unit |-> unit]

\* the same with Math.round in place of Math.floor
formatTimeAgoRounded(diffMs) ==
    LET diffMins == (diffMs + 30000) \div 60000
        diffHours == (diffMins * 2 + 60) \div 120
        diffDays == (diffHours * 2 + 24) \div 48
    IN IF diffMins < 1 THEN TimeLabel(0, "Just now")
       ELSE IF diffMins < 60 THEN TimeLabel(diffMins, "m ago")
       ELSE IF diffHours < 24 THEN TimeLabel(diffHours, "h ago")
       ELSE IF diffDays < 7 THEN TimeLabel(diffDays, "d ago")
       ELSE TimeLabel(0, "toLocaleDateString")

\* formatTimeAgo(dateString), for a date that lies diffMs milliseconds back
formatTimeAgo(diffMs) ==
    LET diffMins == diffMs \div 60000
        diffHours == diffMins \div 60
        diffDays == diffHours \div 24
    IN IF diffMins < 1 THEN TimeLabel(0, "Just now")
       ELSE IF diffMins < 60 THEN TimeLabel(diffMins, "m ago")
       ELSE IF diffHours < 24 THEN TimeLabel(diffHours, "h ago")
       ELSE IF diffDays < 7 THEN TimeLabel(diffDays, "d ago")
       ELSE TimeLabel(0, "toLocaleDateString")

\* an element of data.conversations; age is now - updated_at in milliseconds
Entry(id, age) == [conversation_id |-> id, title |-> <<"title of ", id>>, age |-> age]

RenderedBare(list, active) ==
    [i \in 1..Len(list) |->
        [id |-> list[i].conversation_id,
         active |-> list[i].conversation_id = active,
         time |-> formatTimeAgo(list[i].age)]]

\* renderHistory(): the list of .history-item nodes, or the empty-state block
Rendered(list, active) ==
    IF list = <<>>
    THEN <<[id |-> "empty-history", active |-> FALSE, time |-> TimeLabel(0, "")]>>
    ELSE [i \in 1..Len(list) |->
            [id |-> list[i].conversation_id,
             active |-> list[i].conversation_id = active,
             time |-> formatTimeAgo(list[i].age)]]

\* the user edits #chat-input; the 'input' listener runs autoResizeTextarea
TypeChat(text) ==
    /\ text # chatInput
    /\ chatInput' = text
    /\ sendDisabled' = Blank(Trim(text))
    /\ chatEvent' = [op |-> "type", text |-> text]
    /\ UNCHANGED <<transcript, isTyping, chatConvId, chatTitle, sendReqs,
                   histFetches, conversations, historyView, hmConvId, convFetches,
                   histStale, convStale, authVars>>

\* sendMessage() turned down by its guard: nothing happens
SendMessageIgnored ==
    /\ SendIgnored(SendText)
    /\ chatEvent' = [op |-> "send_ignored", text |-> SendText]
    /\ UNCHANGED <<chatInput, transcript, isTyping, chatConvId, chatTitle,
                   sendDisabled, sendReqs, histFetches, conversations,
                   historyView, hmConvId, convFetches,
                   histStale, convStale, authVars>>

\* sendMessage() up to its await: user message, input cleared, button off,
\* typing indicator, POST /chat/send issued
SendMessageAccepted ==
    /\ ~SendIgnored(SendText)
    /\ Len(transcript) + 2 <= MaxMsgs
    /\ transcript' = Indicated(Appended(transcript, "user", SendText))
    /\ chatTitle' = TitleAfter("user", SendText)
    /\ chatInput' = <<>>
    /\ sendDisabled' = TRUE
    /\ isTyping' = TRUE
    /\ sendReqs' = Append(sendReqs, [message |-> SendText, conversation_id |-> RequestConv])
    /\ chatEvent' = [op |-> "send", text |-> SendText]
    /\ UNCHANGED <<chatConvId, histFetches, conversations, historyView,
                   hmConvId, convFetches,
                   histStale, convStale, authVars>>

\* showTypingIndicator() called by itself
ShowTypingIndicator ==
    /\ Len(transcript) < MaxMsgs
    /\ transcript' = Indicated(transcript)
    /\ isTyping' = TRUE
    /\ chatEvent' = [op |-> "show_typing", text |-> <<>>]
    /\ UNCHANGED <<chatInput, chatConvId, chatTitle, sendDisabled, sendReqs,
                   histFetches, conversations, historyView, hmConvId, convFetches,
                   histStale, convStale, authVars>>

\* hideTypingIndicator() called by itself
HideTypingIndicator ==
    /\ transcript' = WithoutTyping(transcript)
    /\ isTyping' = FALSE
    /\ chatEvent' = [op |-> "hide_typing", text |-> <<>>]
    /\ UNCHANGED <<chatInput, chatConvId, chatTitle, sendDisabled, sendReqs,
                   histFetches, conversations, historyView, hmConvId, convFetches,
                   histStale, convStale, authVars>>

\* the Enter key or a click on #send-btn (a disabled button takes no click)
SendMessage == SendMessageIgnored \/ SendMessageAccepted

Without(list, i) == SubSeq(list, 1, i - 1) \o SubSeq(list, i + 1, Len(list))

\* /chat/send answers success:true
SendOk(i, conv) ==
    /\ i \in DOMAIN sendReqs
    /\ histFetches < MaxHistFetches
    /\ conv = IF sendReqs[i].conversation_id = NoConv THEN conv
              ELSE sendReqs[i].conversation_id
    /\ sendReqs' = Without(sendReqs, i)
    /\ isTyping' = FALSE
    /\ transcript' = Appended(WithoutTyping(transcript), "assistant", <<"r">>)
    /\ chatConvId' = conv
    /\ histFetches' = histFetches + 1
    /\ sendDisabled' = FALSE
    /\ chatEvent' = [op |-> "send_ok", text |-> sendReqs[i].message]
    /\ UNCHANGED <<chatInput, chatTitle, conversations, historyView, hmConvId,
                   convFetches,
                   histStale, convStale, authVars>>

\* /chat/send answers success:false, or the call rejects
SendFailed(i, reply) ==
    /\ i \in DOMAIN sendReqs
    /\ sendReqs' = Without(sendReqs, i)
    /\ isTyping' = FALSE
    /\ transcript' = Appended(WithoutTyping(transcript), "assistant", reply)
    /\ sendDisabled' = FALSE
    /\ chatEvent' = [op |-> "send_failed", text |-> sendReqs[i].message]
    /\ UNCHANGED <<chatInput, chatConvId, chatTitle, histFetches, conversations,
                   historyView, hmConvId, convFetches,
                   histStale, convStale, authVars>>

\* how a /chat/send call fails: a body with success:false, with or without an
\* error field, or a rejected fetch() / response.json()
NoError == "undefined"
FailureAnswers == {[kind |-> "body", error |-> "E"],
                   [kind |-> "body", error |-> NoError],
                   [kind |-> "rejected", error |-> NoError]}

\* the text of the assistant message the failure branch appends: the template
\* `Sorry, I encountered an error: ${data.error}` prints a missing field as
\* 'undefined'; the catch block has a fixed text
FailureReply(answer) ==
    IF answer.kind = "body"
    THEN <<"Sorry, I encountered an error: ", answer.error>>
    ELSE <<"Sorry, I encountered a connection error. Please try again.">>

\* the replies a failed send renders
FailureReplies == {FailureReply(answer) : answer \in FailureAnswers}

NewChatViewAppended == Append(transcript, WelcomeNode)

\* this.messagesContainer.innerHTML = `<div class="welcome-message">...`
NewChatView == <<WelcomeNode>>

\* startNewChat()
StartNewChat ==
    /\ chatConvId' = NoConv
    /\ transcript' = NewChatView
    /\ chatTitle' = <<"New Conversation">>
    /\ chatEvent' = [op |-> "new_chat", text |-> <<>>]
    /\ UNCHANGED <<chatInput, isTyping, sendDisabled, sendReqs, histFetches,
                   conversations, historyView, hmConvId, convFetches,
                   histStale, convStale, authVars>>

\* the lists GET /chat/history may answer with
ServerLists == {<<>>, <<Entry("c2", 0), Entry("c1", 60000)>>}

\* loadConversations(): /chat/history answers success:true to the k-th oldest
\* of the calls in flight; the answer is stored and rendered whichever call
\* it belongs to, and every call issued before it is from then on stale
HistoryAnswered(k, list) ==
    /\ k \in 1..histFetches
    /\ histFetches' = histFetches - 1
    /\ conversations' = list
    /\ historyView' = Rendered(list, hmConvId)
    /\ histStale' = k - 1
    /\ UNCHANGED <<chatInput, transcript, isTyping, chatConvId, chatTitle,
                   sendDisabled, sendReqs, hmConvId, convFetches, chatEvent,
                   convStale, authVars>>

\* loadConversations(): /chat/history answers success:true, the calls
\* answered in the order they were issued
HistoryLoaded(list) == HistoryAnswered(1, list)

\* loadConversations(): success:false, or the call rejects (logged only), for
\* the k-th oldest of the calls in flight
HistoryRejected(k) ==
    /\ k \in 1..histFetches
    /\ histFetches' = histFetches - 1
    /\ histStale' = IF k <= histStale THEN histStale - 1 ELSE histStale
    /\ UNCHANGED <<chatInput, transcript, isTyping, chatConvId, chatTitle,
                   sendDisabled, sendReqs, conversations, historyView, hmConvId,
                   convFetches, chatEvent, convStale, authVars>>

\* the same, the calls answered in the order they were issued
HistoryFailed == HistoryRejected(1)

NextChat ==
    \/ \E text \in ChatInputs : TypeChat(text)
    \/ SendMessageIgnored
    \/ SendMessageAccepted
    \/ \E i \in 1..MaxMsgs, conv \in ConvIds : SendOk(i, conv)
    \/ \E i \in 1..MaxMsgs, reply \in FailureReplies : SendFailed(i, reply)
    \/ StartNewChat
    \/ \E list \in ServerLists : HistoryLoaded(list)
    \/ HistoryFailed

\* the chat page of a signed-in user
InitChat == Init /\ impl = "compat" /\ idpUser = TheEmail

SpecChat == InitChat /\ [][NextChat]_vars

\* what a sendMessage() call may touch besides the observation variable
chatState == <<chatInput, transcript, isTyping, chatConvId, chatTitle,
               sendDisabled, sendReqs, histFetches, conversations, historyView,
               hmConvId, convFetches>>

\* C7: while a send is pending a further sendMessage() call changes nothing,
\* and at no time is more than one /chat/send request in flight.
C7_SingleFlight ==
    /\ [](Len(sendReqs) <= 1)
    /\ [][SendMessage /\ sendReqs # <<>> => UNCHANGED chatState]_vars

\* a sendMessage() call with a non-empty text was turned down while a request
\* was in flight
C7_Witness ==
    /\ chatEvent.op = "send_ignored"
    /\ chatEvent.text # <<>>
    /\ Len(sendReqs) = 1
    /\ isTyping

\* C8: a sendMessage() call whose text is empty or only whitespace appends no
\* user message, issues no /chat/send call, shows no typing indicator and
\* leaves the conversation id and the transcript as they were.
C8_EmptyTextIgnored ==
    [][SendMessage /\ Blank(Trim(chatInput))
       => UNCHANGED <<transcript, sendReqs, isTyping, chatConvId>>]_vars

\* a sendMessage() call ran on a whitespace-only text with no send pending
C8_Witness ==
    /\ chatEvent.op = "send_ignored"
    /\ chatInput # <<>>
    /\ Blank(Trim(chatInput))
    /\ ~isTyping
    /\ sendReqs = <<>>

-----------------------------------------------------------------------------
(* HistoryManager.loadConversation (history-manager.js) *)

\* the messages GET /chat/conversation/{id} may answer with
StoredMessages == {[role |-> "user", content |-> <<"a">>],
                   [role |-> "assistant", content |-> <<"r">>]}
ServerMessages == UNION {[1..n -> StoredMessages] : n \in 0..MaxLoaded}

\* the type renderConversation hands to addMessage
ReplayType(role) == IF role = "user" THEN "user" ELSE "bot"

ReplayKept(msgs) ==
    transcript \o [k \in 1..Len(msgs) |-> Node(ReplayType(msgs[k].role), msgs[k].content)]

\* renderConversation(messages): the container emptied, then one addMessage each
Replay(msgs) ==
    [k \in 1..Len(msgs) |-> Node(ReplayType(msgs[k].role), msgs[k].content)]

\* the title the addMessage calls of a replay leave behind
RECURSIVE ReplayTitle(_, _)
ReplayTitle(msgs, title) ==
    IF msgs = <<>> THEN title
    ELSE ReplayTitle(Tail(msgs),
                     IF Head(msgs).role = "user" /\ chatConvId = NoConv
                     THEN TitleOf(Head(msgs).content) ELSE title)

\* this.conversations.find(c => c.conversation_id === conversationId)
Found(id) == {k \in DOMAIN conversations : conversations[k].conversation_id = id}
FirstFound(id) == CHOOSE k \in Found(id) : \A j \in Found(id) : k <= j

\* updateActiveHistory(): every .history-item loses 'active', the selected one gets it
ActiveMarked(view, id) ==
    [k \in DOMAIN view |-> [view[k] EXCEPT !.active = (view[k].id = id)]]

\* click on a .history-item: loadConversation(id) up to its await, with at
\* most max such calls in flight
SelectWithin(id, max) ==
    /\ \E k \in DOMAIN historyView : historyView[k].id = id
    /\ Len(convFetches) < max
    /\ convFetches' = Append(convFetches, id)
    /\ chatEvent' = [op |-> "select", text |-> <<id>>]
    /\ UNCHANGED <<chatInput, transcript, isTyping, chatConvId, chatTitle,
                   sendDisabled, sendReqs, histFetches, conversations,
                   historyView, hmConvId,
                   histStale, convStale, authVars>>

SelectHistory(id) == SelectWithin(id, MaxConvFetches)

\* /chat/conversation/{id} answers success:true with its messages; every call
\* issued before the answered one is from then on stale
ConversationLoaded(i, msgs) ==
    /\ i \in DOMAIN convFetches
    /\ convFetches' = Without(convFetches, i)
    /\ hmConvId' = convFetches[i]
    /\ transcript' = Replay(msgs)
    /\ historyView' = ActiveMarked(historyView, convFetches[i])
    /\ chatTitle' = IF Found(convFetches[i]) # {}
                    THEN conversations[FirstFound(convFetches[i])].title
                    ELSE ReplayTitle(msgs, chatTitle)
    /\ chatEvent' = [op |-> "loaded", text |-> <<convFetches[i]>>]
    /\ convStale' = i - 1
    /\ UNCHANGED <<chatInput, isTyping, chatConvId, sendDisabled, sendReqs,
                   histFetches, conversations, histStale, authVars>>

\* /chat/conversation/{id} answers success:false, or the call rejects (logged only)
ConversationFailed(i) ==
    /\ i \in DOMAIN convFetches
    /\ convFetches' = Without(convFetches, i)
    /\ chatEvent' = [op |-> "load_failed", text |-> <<convFetches[i]>>]
    /\ convStale' = IF i <= convStale THEN convStale - 1 ELSE convStale
    /\ UNCHANGED <<chatInput, transcript, isTyping, chatConvId, chatTitle,
                   sendDisabled, sendReqs, histFetches, conversations,
                   historyView, hmConvId, histStale, authVars>>

\* the stored conversations explored: the empty one and the longest ones
LoadedLists == {msgs \in ServerMessages : Len(msgs) \in {0, MaxLoaded}}

\* the conversation controller together with the history sidecar
NextHistory ==
    \/ TypeChat(<<"a">>)
    \/ SendMessageAccepted
    \/ \E i \in 1..MaxMsgs, conv \in ConvIds : SendOk(i, conv)
    \/ StartNewChat
    \/ \E list \in ServerLists : HistoryLoaded(list)
    \/ \E id \in ConvIds : SelectHistory(id)
    \/ \E i \in 1..MaxConvFetches, msgs \in LoadedLists : ConversationLoaded(i, msgs)
    \/ \E i \in 1..MaxConvFetches : ConversationFailed(i)

SpecHistory == InitChat /\ [][NextHistory]_vars

\* the history sidecar alone, replaying every stored conversation, over a
\* chat panel that may hold a pending message and its typing indicator
NextReplay ==
    \/ TypeChat(<<"a">>)
    \/ SendMessageAccepted
    \/ StartNewChat
    \/ \E list \in ServerLists : HistoryLoaded(list)
    \/ HistoryFailed
    \/ \E id \in ConvIds : SelectHistory(id)
    \/ \E i \in 1..MaxConvFetches, msgs \in ServerMessages : ConversationLoaded(i, msgs)
    \/ \E i \in 1..MaxConvFetches : ConversationFailed(i)

SpecReplay == InitChat /\ [][NextReplay]_vars

-----------------------------------------------------------------------------
(* Claims: the active conversation and the history sidecar *)

\* the reply of a successful send is on show
ReplyShown == \E k \in DOMAIN transcript : transcript[k] = Node("assistant", <<"r">>)

\* C11: a successful send that returned conversation id c makes c the active
\* id; every send issued afterwards carries the active id; the active id
\* changes only by a successful send, startNewChat or a history selection; and
\* while the active id is null no reply of a successful send is on show.
C11_ConversationIdSticks ==
    /\ [](chatConvId = NoConv => ~ReplyShown)
    /\ [][/\ \A i \in 1..MaxMsgs, conv \in ConvIds : SendOk(i, conv) => chatConvId' = conv
          /\ SendMessageAccepted
                => sendReqs'[Len(sendReqs')].conversation_id = chatConvId
          /\ chatConvId' # chatConvId
                => \/ \E i \in 1..MaxMsgs, conv \in ConvIds : SendOk(i, conv)
                   \/ StartNewChat
                   \/ \E i \in 1..MaxConvFetches, msgs \in ServerMessages :
                         ConversationLoaded(i, msgs)]_vars

\* a second send of the session is in flight and carries the id the first
\* successful send returned
C11_Witness ==
    /\ chatEvent.op = "send"
    /\ chatConvId \in ConvIds
    /\ ReplyShown
    /\ Len(sendReqs) = 1
    /\ sendReqs[1].conversation_id = chatConvId

\* C12: when loadConversation(id) completes successfully, id is the active
\* conversation id, the one the next sendMessage puts into its request.
C12_LoadedConversationIsActive ==
    [][\A i \in 1..MaxConvFetches, msgs \in ServerMessages :
          ConversationLoaded(i, msgs) => RequestConv' = convFetches[i]]_vars

\* the role a transcript node shows: addMessage draws 'You' for type user
\* and the assistant avatar for every other type
NodeRole(kind) == IF kind = "user" THEN "user" ELSE "assistant"

\* C13: when loadConversation(id) succeeds with N messages the transcript is
\* exactly N message nodes, in the order of the response, each with the role
\* and the content of the message at the same position.
C13_ReplayInServerOrder ==
    [][\A i \in 1..MaxConvFetches, msgs \in ServerMessages :
          ConversationLoaded(i, msgs)
          => /\ Len(transcript') = Len(msgs)
             /\ \A k \in 1..Len(msgs) :
                   /\ transcript'[k].kind \in {"user", "assistant", "bot"}
                   /\ NodeRole(transcript'[k].kind) = msgs[k].role
                   /\ transcript'[k].content = msgs[k].content]_vars

\* a conversation whose first message is the assistant's has been loaded
C13_Witness ==
    /\ chatEvent.op = "loaded"
    /\ Len(transcript) = 2
    /\ transcript[1] = Node("bot", <<"r">>)
    /\ transcript[2] = Node("user", <<"a">>)

\* the ids of the history entries marked active
ActiveIds == {historyView[k].id : k \in {j \in DOMAIN historyView : historyView[j].active}}
ActiveCount == Cardinality({j \in DOMAIN historyView : historyView[j].active})
Listed(id) == \E k \in DOMAIN historyView : historyView[k].id = id

\* C14: at most one history entry is marked active; after a successful
\* loadConversation(id) the entry of id, when listed, is the one active entry;
\* after startNewChat no entry is active.
C14_OneActiveEntry ==
    /\ [](ActiveCount <= 1)
    /\ [][/\ \A i \in 1..MaxConvFetches, msgs \in ServerMessages :
                ConversationLoaded(i, msgs) /\ Listed(convFetches[i])
                => ActiveIds' = {convFetches[i]} /\ ActiveCount' = 1
          /\ StartNewChat => ActiveIds' = {}]_vars

-----------------------------------------------------------------------------
(* Claims: outcome of a send, new chat *)
IsUserNode(node) == node.kind = "user"
IsTypingNode(node) == node.kind = "typing"
IsShownNode(node) == node.kind # "typing"
UserNodes(list) == SelectSeq(list, IsUserNode)
TypingNodes(list) == SelectSeq(list, IsTypingNode)
ShownNodes(list) == SelectSeq(list, IsShownNode)

\* the transcript gained exactly one node, an assistant message, at its end,
\* and holds no pending indicator
OneReplyAppended ==
    /\ TypingNodes(transcript') = <<>>
    /\ Len(transcript') = Len(ShownNodes(transcript)) + 1
    /\ SubSeq(transcript', 1, Len(transcript') - 1) = ShownNodes(transcript)
    /\ transcript'[Len(transcript')].kind = "assistant"

\* C17: an accepted send appends the user message in the step that issues the
\* backend call; when the call resolves, with success, success:false or a
\* transport error, the pending indicator is gone and exactly one assistant
\* message is appended, every user message staying in place; on failure the
\* conversation id is unchanged and no history refresh is issued.
C17_SendOutcome ==
    [][/\ SendMessageAccepted
          => /\ Len(sendReqs') = Len(sendReqs) + 1
             /\ UserNodes(transcript') = Append(UserNodes(transcript), Node("user", Trim(chatInput)))
             /\ ShownNodes(transcript') = Append(ShownNodes(transcript), Node("user", Trim(chatInput)))
       /\ \A i \in 1..MaxMsgs, reply \in FailureReplies :
             SendFailed(i, reply)
             => /\ OneReplyAppended
                /\ transcript'[Len(transcript')].content = reply
                /\ UNCHANGED <<chatConvId, histFetches>>
       /\ \A i \in 1..MaxMsgs, conv \in ConvIds :
             SendOk(i, conv) => OneReplyAppended]_vars

\* a send failed: its user message is still on show, followed by the one
\* assistant message that reports the failure, and no indicator is left
C17_Witness ==
    /\ chatEvent.op = "send_failed"
    /\ Len(transcript) = 2
    /\ transcript[1] = Node("user", chatEvent.text)
    /\ transcript[2] = Node("assistant", <<"Sorry, I encountered an error: ", "E">>)
    /\ chatConvId = NoConv
    /\ histFetches = 0

\* C18: startNewChat sets the conversation id to null, leaves the welcome
\* placeholder as the whole transcript, issues no backend call and leaves the
\* cached history list as it was.
C18_NewChatResets ==
    [][StartNewChat
       => /\ chatConvId' = NoConv
          /\ transcript' = <<WelcomeNode>>
          /\ UNCHANGED <<sendReqs, histFetches, convFetches, conversations>>]_vars

\* startNewChat ran on a conversation that had an id, a cached history list
\* and a send in flight
C18_Witness ==
    /\ chatEvent.op = "new_chat"
    /\ chatConvId = NoConv
    /\ transcript = <<WelcomeNode>>
    /\ conversations # <<>>
    /\ Len(sendReqs) = 1
    /\ sendReqs[1].conversation_id \in ConvIds

-----------------------------------------------------------------------------
(* Specification of the title derivation: first messages of every length *)
LongChars == <<"a", "b", "c", "d", "e", "f", "g">>
\* a message of n characters in which no two windows of 50 look alike
LongText(n) == [i \in 1..n |-> LongChars[(i % 7) + 1]]

NextTitle ==
    \/ \E n \in 1..MaxLongLen : TypeChat(LongText(n))
    \/ SendMessageAccepted
    \/ StartNewChat

SpecTitle == InitChat /\ [][NextTitle]_vars

\* C19: the title derived from a first user message of length L is the first
\* 50 characters followed by an ellipsis when L > 50, and the message itself
\* when L <= 50.
C19_TitleDerivation ==
    [][SendMessageAccepted /\ chatConvId = NoConv
       => LET message == Trim(chatInput)
          IN IF Len(message) > 50
             THEN /\ Len(chatTitle') = 53
                  /\ SubSeq(chatTitle', 1, 50) = SubSeq(message, 1, 50)
                  /\ SubSeq(chatTitle', 51, 53) = <<".", ".", ".">>
             ELSE chatTitle' = message]_vars

\* a 60-character first message was sent and the title is 50 characters and
\* the ellipsis
C19_Witness ==
    /\ chatEvent.op = "send"
    /\ Len(chatEvent.text) = 60
    /\ Len(chatTitle) = 53
    /\ chatTitle[50] = chatEvent.text[50]
    /\ chatTitle[51] = "."

-----------------------------------------------------------------------------
(* Specification of the time labels: history lists whose entries lie at and *)
(* around every boundary of formatTimeAgo                                   *)
TimeBoundaries == {0, 59000, 60000, 3599000, 3600000, 86400000, 604800000}
Elapsed == {b + k : b \in TimeBoundaries, k \in (0 - MaxSkew)..MaxSkew}
TimeLists == {<<Entry("c1", d)>> : d \in Elapsed}

NextTime ==
    \/ TypeChat(<<"a">>)
    \/ SendMessageAccepted
    \/ \E i \in 1..MaxMsgs, conv \in ConvIds : SendOk(i, conv)
    \/ \E list \in TimeLists : HistoryLoaded(list)

SpecTime == InitChat /\ [][NextTime]_vars

\* C20: every rendered history entry carries the label of the rule: under a
\* minute 'Just now', then whole minutes below 60, whole hours below 24, whole
\* days below 7, else a date; 59 s is 'Just now', 60 s '1m ago', 3599 s
\* '59m ago', 3600 s '1h ago'.
C20_TimeAgoLabels ==
    LET AgoLabel(d) ==
          IF d < 60000 THEN TimeLabel(0, "Just now")
          ELSE IF d \div 60000 < 60 THEN TimeLabel(d \div 60000, "m ago")
          ELSE IF (d \div 60000) \div 60 < 24
               THEN TimeLabel((d \div 60000) \div 60, "h ago")
          ELSE IF ((d \div 60000) \div 60) \div 24 < 7
               THEN TimeLabel(((d \div 60000) \div 60) \div 24, "d ago")
          ELSE TimeLabel(0, "toLocaleDateString")
    IN conversations # <<>>
       => \A k \in DOMAIN conversations :
             /\ historyView[k].time = AgoLabel(conversations[k].age)
             /\ conversations[k].age = 59000 => historyView[k].time = TimeLabel(0, "Just now")
             /\ conversations[k].age = 60000 => historyView[k].time = TimeLabel(1, "m ago")
             /\ conversations[k].age = 3599000 => historyView[k].time = TimeLabel(59, "m ago")
             /\ conversations[k].age = 3600000 => historyView[k].time = TimeLabel(1, "h ago")

\* an entry 3599 s old is on show as '59m ago'
C20_Witness ==
    /\ conversations # <<>>
    /\ conversations[1].age = 3599000
    /\ historyView[1].time = TimeLabel(59, "m ago")

-----------------------------------------------------------------------------
(* Claims: the two regions of the page *)

\* the code has switched the modal on
ModalShown == modalDisplay \in {"flex", "block"}

\* C15: exactly one of the auth modal and the main surface is visible in
\* every state. A region the code has not styled is as visible as the
\* stylesheet makes it, so the claim is judged on steps: whenever a step turns
\* the modal from shown to hidden or from hidden to shown, the display of the
\* main surface has to change with it.
C15_ExactlyOneSurface ==
    [][(ModalShown /\ ModalHidden') \/ (ModalHidden /\ ModalShown')
       => mainDisplay' # mainDisplay]_vars

-----------------------------------------------------------------------------
(* Specification of the bindings: the page receives 'firebaseReady' any     *)
(* number of times while the user signs in                                  *)
BindStep ==
    \/ FirebaseReady
    \/ FirebaseReadyAgain
    \/ NotifyUser
    \/ NotifyNone
    \/ ReloadTimerFires
    \/ FillLogin([email |-> TheEmail, password |-> GoodPassword])
    \/ SubmitLogin
    \/ \E t \in Slots : SignInResolve(t)
    \/ \E t \in Slots : TokenResolve(t)
    \/ \E t \in Slots : VerifyOk(t)
    \/ \E t \in Slots, result \in VerifyResults : VerifyFailed(t, result)
    \/ \E t \in Slots : VerifyError(t)

NextBind == BindStep
SpecBind == InitSignedOut /\ [][NextBind]_vars

\* C16: on one page load the session-change listener and the form handlers
\* are bound once, however many 'firebaseReady' events arrive.
C16_BoundOnce ==
    /\ authListeners <= 1
    /\ submitBindings <= 1
    /\ initialized => authListeners = 1 /\ submitBindings = 1

-----------------------------------------------------------------------------
(* Claims: the text shown for a rejected provider call *)

\* a provider call of handler t was rejected and its catch block ran
ProviderRejected(t) ==
    /\ SignInResolve(t) \/ CreateResolve(t) \/ ProfileResolve(t) \/ TokenResolve(t)
    /\ tasks'[t] = IdleTask

\* C21: the text shown for a rejected provider call is the fixed string of the
\* code when the code is one of the five mapped ones, else the provider's raw
\* message, else, the message being absent, 'An error occurred'.
C21_ErrorTextFallback ==
    [][\A t \in Slots :
          ProviderRejected(t)
          => /\ errorShown'
             /\ errorText' \in {getErrorMessage(error) : error \in ProviderErrors}
             /\ errorText' # NoMessage]_vars

-----------------------------------------------------------------------------
(* Claims: replay against a pending send *)

\* C22: a history replay and a send never interleave on the transcript: while
\* a send is pending no replay clears or repopulates the transcript, so the
\* pending indicator and the user message of the send stay on show.
C22_ReplayNeverInterleaves ==
    [][\A i \in 1..MaxConvFetches, msgs \in ServerMessages :
          ConversationLoaded(i, msgs) /\ sendReqs # <<>>
          => /\ UNCHANGED transcript
             /\ TypingNodes(transcript') = TypingNodes(transcript)]_vars

-----------------------------------------------------------------------------
(* Claims: one attempt at a time *)

\* the sign-in and sign-up handlers suspended at an await
Attempts == {t \in Slots : tasks[t].kind \in {"login", "register"}}
\* those of them whose POST /auth/verify is in flight
Verifying == {t \in Attempts : tasks[t].pc = "verify"}

\* C23: while a sign-in or sign-up attempt is in flight a further submission
\* of either form starts no provider call, and at no time is more than one
\* /auth/verify call in flight.
C23_NoDoubleSubmit ==
    /\ [](Cardinality(Verifying) <= 1)
    /\ [][(SubmitLogin \/ SubmitRegister) /\ Attempts # {} => tasks' = tasks]_vars

-----------------------------------------------------------------------------
(* Specification of the history refresh: sends that succeed and fail, and   *)
(* history fetches answered with lists of every size                        *)
RefetchLists == ServerLists \cup {<<Entry("c1", 0)>>}

NextRefetch ==
    \/ TypeChat(<<"a">>)
    \/ SendMessageAccepted
    \/ \E i \in 1..MaxMsgs, conv \in ConvIds : SendOk(i, conv)
    \/ \E i \in 1..MaxMsgs, reply \in FailureReplies : SendFailed(i, reply)
    \/ \E list \in RefetchLists : HistoryLoaded(list)
    \/ HistoryFailed

SpecRefetch == InitChat /\ [][NextRefetch]_vars

-----------------------------------------------------------------------------
(* Claims: the text of a failed send *)

\* C25: the assistant message appended after a failed send carries the
\* backend's error text when the answer has one, and is the generic
\* connection-error message otherwise (fetch rejected, or success:false with
\* no error field); it never embeds an absent error value.
C25_FailureText ==
    [][\A i \in 1..MaxMsgs, answer \in FailureAnswers :
          SendFailed(i, FailureReply(answer))
          => LET shown == transcript'[Len(transcript')].content
             IN /\ \A k \in DOMAIN shown : shown[k] # NoError
                /\ IF answer.kind = "body" /\ answer.error # NoError
                   THEN shown[Len(shown)] = answer.error
                   ELSE shown = <<"Sorry, I encountered a connection error. Please try again.">>]_vars

-----------------------------------------------------------------------------
(* Claims: when the title is derived *)

\* C26: the title is derived from the first user message of a conversation
\* only: a send into a transcript that already holds a user message, a second
\* message after a failed first send among them, leaves the title as it was.
C26_TitleDerivedOnce ==
    [][SendMessageAccepted /\ UserNodes(transcript) # <<>>
       => UNCHANGED chatTitle]_vars

-----------------------------------------------------------------------------
(* Specification of the pending indicator: sends, replays, new chats and    *)
(* calls of showTypingIndicator/hideTypingIndicator in any order            *)
NextTyping ==
    \/ TypeChat(<<"a">>)
    \/ SendMessageAccepted /\ Len(sendReqs) < MaxPending
    \/ \E i \in 1..MaxPending : SendOk(i, "c1")
    \/ \E i \in 1..MaxPending :
          SendFailed(i, FailureReply([kind |-> "rejected", error |-> NoError]))
    \/ ShowTypingIndicator
    \/ HideTypingIndicator
    \/ StartNewChat
    \/ HistoryLoaded(<<Entry("c1", 0)>>)
    \/ SelectHistory("c1")
    \/ \E i \in 1..MaxConvFetches, msgs \in LoadedLists : ConversationLoaded(i, msgs)

SpecTyping == InitChat /\ [][NextTyping]_vars

\* C27: the transcript never holds more than one pending indicator, and a
\* showTypingIndicator call made while isTyping is true inserts nothing.
C27_OneIndicator ==
    /\ [](Len(TypingNodes(transcript)) <= 1)
    /\ [][ShowTypingIndicator /\ isTyping => UNCHANGED transcript]_vars

\* showTypingIndicator was called while a send was pending and its indicator
\* on show: the transcript still holds the one indicator
C27_Witness ==
    /\ chatEvent.op = "show_typing"
    /\ isTyping
    /\ sendReqs # <<>>
    /\ Len(TypingNodes(transcript)) = 1
    /\ Len(transcript) = 2

-----------------------------------------------------------------------------
(* Claims: the order of the sign-up steps *)

\* C28: a sign-up goes through account creation, display-name update, token
\* retrieval and verify in this order: the token is asked for only after the
\* display-name update has succeeded and set the account's name from the
\* form, verify is issued only after the token, and a failed creation or
\* display-name update ends the sign-up.
C28_SignUpOrder ==
    [][\A t \in Slots :
          /\ tasks'[t].kind = "register" /\ tasks'[t].pc = "token" /\ tasks[t].pc # "token"
             => /\ tasks[t].kind = "register" /\ tasks[t].pc = "profile"
                /\ profileName' = tasks[t].name
          /\ tasks'[t].kind = "register" /\ tasks'[t].pc = "verify" /\ tasks[t].pc # "verify"
             => tasks[t].kind = "register" /\ tasks[t].pc = "token"
          /\ tasks'[t].kind = "register" /\ tasks'[t].pc = "create" /\ tasks[t].pc # "create"
             => SubmitRegister /\ ~PasswordTooShort(registerForm.password)]_vars

-----------------------------------------------------------------------------
(* Specification of rejected attempts: forms that pass and fail the local   *)
(* checks are submitted and the provider accepts or rejects the calls       *)
RejectStep ==
    \/ FirebaseReady
    \/ NotifyUser
    \/ NotifyNone
    \/ \E password \in {<<>>, GoodPassword} :
          FillLogin([email |-> TheEmail, password |-> password])
    \/ \E password \in {Pw(MinPasswordLength - 1), GoodPassword} :
          FillRegister([name |-> TheName, email |-> TheEmail, password |-> password])
    \/ SubmitLogin
    \/ SubmitRegister
    \/ \E t \in Slots : SignInResolve(t)
    \/ \E t \in Slots : CreateResolve(t)
    \/ \E t \in Slots : ProfileResolve(t)
    \/ \E t \in Slots : TokenResolve(t)
    \/ \E t \in Slots : VerifyError(t)

NextReject == RejectStep
SpecReject == InitSignedOut /\ [][NextReject]_vars

\* what an attempt must leave alone when it is turned down: the provider
\* session, the identity, the two regions, the label, the typed input and the
\* reload timer
sessionState == <<idpUser, profileName, notifQ, currentUser, modalDisplay,
                  mainDisplay, userName, loginForm, registerForm, reloadTimer>>

\* C29: a submission turned down by a local check changes nothing but the
\* displayed error; a sign-in or account creation rejected by the provider
\* ends its handler with the error displayed and the loading indicator off,
\* issues no verify call, and leaves the session, the identity, the modal, the
\* main surface and the typed input as they were.
C29_RejectionChangesNothing ==
    [][/\ (SubmitLogin \/ SubmitRegister) /\ errorShown'
          => /\ errorText' \in ValidationTexts
             /\ UNCHANGED <<sessionState, tasks, loadingShown>>
       /\ \A t \in Slots :
             (SignInResolve(t) \/ CreateResolve(t)) /\ tasks'[t] = IdleTask
             => /\ errorShown'
                /\ ~loadingShown'
                /\ UNCHANGED sessionState
                /\ \A u \in Slots \ {t} : tasks'[u] = tasks[u]]_vars

\* the provider has rejected a sign-in: the error is displayed, nothing is in
\* flight, nobody is signed in, the modal is open and the form still filled
C29_Witness ==
    /\ errorShown /\ ~loadingShown
    /\ errorText \in {CatchText(error) : error \in ProviderErrors}
    /\ \A t \in Slots : tasks[t] = IdleTask
    /\ idpUser = NoUser /\ currentUser = NoUser
    /\ ModalReachable
    /\ loginForm = [email |-> TheEmail, password |-> GoodPassword]

-----------------------------------------------------------------------------
(* Specification of the tabs: forms are typed into and submitted, errors    *)
(* are displayed, and the user switches between the two tabs                *)
Tabs == {"login", "register"}

TabStep ==
    \/ FirebaseReady
    \/ NotifyNone
    \/ FillLogin([email |-> TheEmail, password |-> GoodPassword])
    \/ \E password \in {Pw(MinPasswordLength - 1), GoodPassword} :
          FillRegister([name |-> TheName, email |-> TheEmail, password |-> password])
    \/ SubmitLogin
    \/ SubmitRegister
    \/ \E t \in Slots : SignInResolve(t)
    \/ \E t \in Slots : CreateResolve(t)
    \/ \E tab \in Tabs : SwitchTab(tab)

NextTabs == TabStep
SpecTabs == InitSignedOut /\ [][NextTabs]_vars

\* C30: a switch of tab leaves no error displayed, shows the sub-form of the
\* selected tab and hides the other, keeps the typed input of both sub-forms,
\* starts and ends no call and leaves the session and the two regions alone.
C30_TabSwitch ==
    [][\A tab \in Tabs :
          SwitchTab(tab)
          => /\ ~errorShown'
             /\ loginFormDisplay' = "block" <=> tab = "login"
             /\ registerFormDisplay' = "block" <=> tab = "register"
             /\ {loginFormDisplay', registerFormDisplay'} = {"block", "none"}
             /\ UNCHANGED <<loginForm, registerForm, tasks>>
             /\ UNCHANGED <<idpUser, notifQ, currentUser, modalDisplay,
                            mainDisplay, userName, reloadTimer>>]_vars

-----------------------------------------------------------------------------
(* Claims: failed history fetches *)

\* C31: a history fetch that fails (the list or one conversation, success:false
\* or a transport error) ends inside its handler, leaves the cached list, the
\* sidecar's conversation id and the transcript as they were, and puts an
\* error message on the page.
C31_FailedFetchShowsError ==
    [][(HistoryFailed \/ \E i \in 1..MaxConvFetches : ConversationFailed(i))
       => /\ UNCHANGED <<conversations, hmConvId, transcript>>
          /\ <<historyView, chatTitle>>' # <<historyView, chatTitle>>]_vars

-----------------------------------------------------------------------------
(* Specification of the chat page with every /chat/send call answered:      *)
(* the transport resolves or rejects each call in the end                   *)
SendResolves ==
    \E i \in 1..MaxMsgs :
        \/ \E conv \in ConvIds : SendOk(i, conv)
        \/ \E reply \in FailureReplies : SendFailed(i, reply)

SpecChatFair == SpecChat /\ WF_vars(SendResolves)

\* C32: while the call of an accepted send is unresolved the send is pending
\* and the send button disabled; once the call is answered, with success,
\* success:false, a transport error or a body that does not parse, isTyping
\* is false, the indicator is gone and the send button is enabled.
C32_SendLeavesPending ==
    /\ [](sendReqs # <<>> => isTyping /\ sendDisabled)
    /\ sendReqs # <<>> ~> /\ sendReqs = <<>>
                          /\ ~isTyping
                          /\ ~sendDisabled
                          /\ TypingNodes(transcript) = <<>>

-----------------------------------------------------------------------------
(* Claims: the flag and the indicator *)

\* C33: in every state isTyping is true exactly when the transcript holds the
\* typing indicator, also after startNewChat or a history replay has replaced
\* the transcript while a send was pending.
C33_FlagMatchesIndicator ==
    isTyping <=> TypingNodes(transcript) # <<>>

-----------------------------------------------------------------------------
(* Claims: a new chat against a send in flight *)

\* C34: the answer of a send that was in flight when startNewChat ran (the
\* transcript is the welcome block alone while the call is unanswered) does
\* not set the conversation id and does not append its reply to the
\* transcript of the new conversation.
C34_NewChatIgnoresOldSend ==
    [][\A i \in 1..MaxMsgs, conv \in ConvIds :
          SendOk(i, conv) /\ transcript = <<WelcomeNode>>
          => /\ chatConvId' = NoConv
             /\ ShownNodes(transcript') = ShownNodes(transcript)]_vars

-----------------------------------------------------------------------------
(* Claims: overlapping fetches of the history sidecar *)

MaxOverlap == 2 \* conversation fetches in flight when selections overlap

\* the history sidecar with its calls answered in any order: the constructor's
\* load and the re-fetch after a send, and two selections made one after the
\* other
NextOverlap ==
    \/ TypeChat(<<"a">>)
    \/ SendMessageAccepted
    \/ \E i \in 1..MaxMsgs : SendOk(i, "c1")
    \/ \E k \in 1..MaxHistFetches, list \in ServerLists : HistoryAnswered(k, list)
    \/ \E k \in 1..MaxHistFetches : HistoryRejected(k)
    \/ \E id \in ConvIds : SelectWithin(id, MaxOverlap)
    \/ \E i \in 1..MaxOverlap, msgs \in LoadedLists : ConversationLoaded(i, msgs)
    \/ \E i \in 1..MaxOverlap : ConversationFailed(i)

SpecOverlap == InitChat /\ [][NextOverlap]_vars

\* C35: when the last of several overlapping /chat/history calls is answered,
\* the list it stores is not older than the one already cached: its call was
\* issued after the call whose answer is in the cache, so the cache ends up
\* holding the answer of the most recently issued call.
C35_NewestListWins ==
    [][\A k \in 1..MaxHistFetches, list \in ServerLists :
          HistoryAnswered(k, list) /\ histFetches' = 0 => k > histStale]_vars

\* C36: when the last of several overlapping /chat/conversation/{id} calls is
\* answered, the conversation it loads was selected after the one already
\* loaded, so the sidecar ends up on the entry selected last.
C36_LastSelectionWins ==
    [][\A i \in 1..MaxOverlap, msgs \in LoadedLists :
          ConversationLoaded(i, msgs) /\ convFetches' = <<>> => i > convStale]_vars

====
